---- MODULE Spec2Model ----
(***************************************************************************)
(* geoshift: conversion of coordinates between WGS84, GCJ02 and BD09 and   *)
(* the geometry helpers built on it (src/src/index.ts).                    *)
(*                                                                         *)
(* JavaScript numbers are modelled in decimal fixed point with nine       *)
(* fractional digits: a finite number is a pair <<h, l>> that stands for  *)
(* h + l * 10^-9 with h an integer (the floor) and l in 0 .. 10^9 - 1.    *)
(* One digit more than the eight digits roundCoordinate keeps, so that    *)
(* rounding, the 1e-8 convergence threshold and inputs that are not on    *)
(* the 1e-8 grid are all representable.  Products and quotients are       *)
(* rounded to the nearest 10^-9; Math.sin, Math.cos, Math.sqrt,           *)
(* Math.atan2 and Math.asin are computed by series on these numbers, to   *)
(* about 10^-9.  NaN, Infinity and undefined are separate tagged values.  *)
(*                                                                         *)
(* Two conventions keep the evaluation by TLC small.  Operators name      *)
(* their intermediate values in the order of the code and end in          *)
(* CASE Known(<<v1, v2, ...>>) -> result, which computes the values in    *)
(* that order before the result.  And the operators of the arithmetic     *)
(* and of the transformer call one another through Call(f, <<args>>),     *)
(* which is f applied to the arguments.                                   *)
(***************************************************************************)
EXTENDS Integers, Sequences, FiniteSets, TLC

\* ----------------------------------------------------------------------
\* Fixed-point numbers
\* ----------------------------------------------------------------------

Nano == 10^9
Base == 10^4

\* TRUE of any values, once they have been computed
Known(vs) == vs = vs

\* f applied to the values v (defined after the operators it reaches)
RECURSIVE Call(_, _)

QZero == <<0, 0>>
QOne == <<1, 0>>
QHalf == <<0, 500000000>>
QInt(n) == <<n, 0>>

QNeg(a) == IF a[2] = 0 THEN <<0 - a[1], 0>> ELSE <<0 - a[1] - 1, Nano - a[2]>>

QAdd(a, b) ==
  IF a[2] + b[2] >= Nano THEN <<a[1] + b[1] + 1, a[2] + b[2] - Nano>>
  ELSE <<a[1] + b[1], a[2] + b[2]>>

QSub(a, b) == QAdd(a, QNeg(b))

QLt(a, b) == a[1] < b[1] \/ (a[1] = b[1] /\ a[2] < b[2])
QGt(a, b) == QLt(b, a)
QLe(a, b) == ~QLt(b, a)
QGe(a, b) == ~QLt(a, b)

QIsNeg(a) == a[1] < 0
QAbs(a) == IF QIsNeg(a) THEN QNeg(a) ELSE a
QSigned(neg, m) == IF neg THEN QNeg(m) ELSE m

\* Math.floor, as an integer
QFloor(a) == a[1]

\* The five base-10^4 digits of a non-negative number in units of 10^-9
MagDigs(a) ==
  <<a[2] % Base, (a[2] \div Base) % Base, (a[1] % 1000) * 10 + (a[2] \div 10^8),
    (a[1] \div 1000) % Base, a[1] \div 10^7>>

\* Product of the non-negative numbers of digits x and y, rounded to the
\* nearest 10^-9: the columns of the long multiplication with their
\* carries.  A product that leaves the 32-bit integers of TLC is an error.
MagMul(x, y) ==
  LET c0 == x[1] * y[1]
      c1 == x[1] * y[2] + x[2] * y[1] + (c0 \div Base)
      c2 == x[1] * y[3] + x[2] * y[2] + x[3] * y[1] + (c1 \div Base) + 5
      c3 == x[1] * y[4] + x[2] * y[3] + x[3] * y[2] + x[4] * y[1] + (c2 \div Base)
      c4 == x[1] * y[5] + x[2] * y[4] + x[3] * y[3] + x[4] * y[2] + x[5] * y[1]
              + (c3 \div Base)
      c5 == x[2] * y[5] + x[3] * y[4] + x[4] * y[3] + x[5] * y[2] + (c4 \div Base)
      c6 == x[3] * y[5] + x[4] * y[4] + x[5] * y[3] + (c5 \div Base)
      c7 == x[4] * y[5] + x[5] * y[4] + (c6 \div Base)
  IN CASE Known(<<x, y, c0, c1, c2, c3, c4, c5, c6, c7>>) ->
       <<((c4 % Base) \div 100) + (c5 % Base) * 100
           + (IF c7 = 0 THEN c6 % Base ELSE Base * Base * Base) * 10^6,
         ((c2 % Base) \div 10) + (c3 % Base) * 1000 + ((c4 % Base) % 100) * 10^7>>

\* a * b
QMul(a, b) ==
  CASE Known(<<a, b>>) ->
    QSigned(QIsNeg(a) # QIsNeg(b), MagMul(MagDigs(QAbs(a)), MagDigs(QAbs(b))))

\* Number of decimal digits of a non-negative integer (0 has none)
Digits(n) ==
  IF n < 10^4
  THEN (IF n < 100 THEN (IF n < 1 THEN 0 ELSE IF n < 10 THEN 1 ELSE 2)
                   ELSE (IF n < 1000 THEN 3 ELSE 4))
  ELSE IF n < 10^7 THEN (IF n < 10^5 THEN 5 ELSE IF n < 10^6 THEN 6 ELSE 7)
  ELSE IF n < 10^8 THEN 8 ELSE IF n < 10^9 THEN 9 ELSE 10

\* a * 10^k and a / 10^k (truncated) for a non-negative a and 0 <= k <= 9
MagShl(a, k) ==
  <<a[1] * 10^k + (a[2] \div 10^(9 - k)), (a[2] % 10^(9 - k)) * 10^k>>
MagShr(a, k) ==
  <<a[1] \div 10^k, (a[1] % 10^k) * 10^(9 - k) + (a[2] \div 10^k)>>

\* Number of digits of a non-negative a counted in units of 10^-9
MagDigits(a) == IF a[1] > 0 THEN 9 + Digits(a[1]) ELSE Digits(a[2])

\* A non-negative a written as m * 10^f units of 10^-9 with m of nine
\* digits (ten digits are cut to nine); <<m, f>>, and <<0, 0>> for zero
MagLeadOf(a, dh, dl) ==
  IF dh = 0 THEN (IF dl = 0 THEN <<0, 0>> ELSE <<a[2] * 10^(9 - dl), dl - 9>>)
  ELSE IF dh = 10 THEN <<a[1] \div 10, 10>>
  ELSE <<a[1] * 10^(9 - dh) + (a[2] \div 10^dh), dh>>
MagLead(a) == MagLeadOf(a, Digits(a[1]), Digits(a[2]))

\* n * 10^t in units of 10^-9, as a number (t may be negative)
MagOfNano(n, t) ==
  IF t >= 0 THEN (IF t <= 9 THEN MagShl(<<0, n>>, t) ELSE MagShl(MagShl(<<0, n>>, 9), t - 9))
  ELSE IF t >= 0 - 9 THEN <<0, n \div 10^(0 - t)>> ELSE QZero

\* A lower estimate of r / b for non-negative r and positive b, good to
\* three digits or more: the leading nine digits of r over the leading
\* five of b (plus one, so that the estimate never exceeds r / b).
MagEstOf(lr, lb) ==
  MagOfNano(lr[1] \div ((lb[1] \div 10^4) + 1), lr[2] - (lb[2] + 4) + 9)
MagEst(r, b) == CASE Known(<<r, b>>) -> MagEstOf(MagLead(r), MagLead(b))

\* One round of long division: q grows by an estimate of the remainder
\* a - q * b over b
MagDivRound(a, b, q) ==
  LET p == Call("QMul", <<q, b>>)
      e == IF QLt(a, p) THEN QZero ELSE MagEst(QSub(a, p), b)
  IN CASE Known(<<q, p, e>>) -> QAdd(q, e)

\* q or q + 10^-9, whichever is the greater that times b stays within a
MagDivUp(a, b, q) ==
  LET p == Call("QMul", <<QAdd(q, <<0, 1>>), b>>)
  IN CASE Known(<<q, p>>) -> IF QLe(p, a) THEN QAdd(q, <<0, 1>>) ELSE q

\* Quotient of a non-negative a by a positive b to the nearest 10^-9, by
\* successive estimates; a and b are scaled so that the products are exact
MagDivScaled(a, b) ==
  LET e0 == MagEst(a, b)
      e1 == Call("MagDivRound", <<a, b, e0>>)
      e2 == Call("MagDivRound", <<a, b, e1>>)
      e3 == Call("MagDivRound", <<a, b, e2>>)
      e4 == Call("MagDivRound", <<a, b, e3>>)
      e5 == Call("MagDivRound", <<a, b, e4>>)
      e6 == Call("MagDivRound", <<a, b, e5>>)
      q1 == Call("MagDivUp", <<a, b, e6>>)
      q2 == Call("MagDivUp", <<a, b, q1>>)
      p2 == Call("QMul", <<q2, b>>)
  IN CASE Known(<<a, b, e0, e1, e2, e3, e4, e5, e6, q1, q2, p2>>) ->
       \* nearest: one more unit if twice the remainder reaches b
       IF ~QLt(a, p2) /\ QGe(QAdd(QSub(a, p2), QSub(a, p2)), MagShr(b, 9))
       THEN QAdd(q2, <<0, 1>>) ELSE q2

\* The power of ten by which both operands of a division are scaled
MagScale(da, db) ==
  IF da >= 17 \/ db >= 17 THEN 0
  ELSE IF da <= 8 /\ db <= 8 THEN 9
  ELSE IF da > db THEN 17 - da ELSE 17 - db

\* a / b
QDiv(a, b) ==
  CASE Known(<<a, b>>) ->
    QSigned(QIsNeg(a) # QIsNeg(b),
            Call("MagDivScaled",
                 <<MagShl(QAbs(a), MagScale(MagDigits(QAbs(a)), MagDigits(QAbs(b)))),
                   MagShl(QAbs(b), MagScale(MagDigits(QAbs(a)), MagDigits(QAbs(b))))>>))

\* One step of Newton's iteration for the integer square root, from above
ISqrtStep(n, x) == IF (x + (n \div x)) \div 2 < x THEN (x + (n \div x)) \div 2 ELSE x

\* The integer square root of 10^7 <= n < 10^9
ISqrt(n) ==
  LET x1 == ISqrtStep(n, 46341)
      x2 == ISqrtStep(n, x1)
      x3 == ISqrtStep(n, x2)
      x4 == ISqrtStep(n, x3)
      x5 == ISqrtStep(n, x4)
      x6 == ISqrtStep(n, x5)
      x7 == ISqrtStep(n, x6)
      x8 == ISqrtStep(n, x7)
  IN CASE Known(<<n, x1, x2, x3, x4, x5, x6, x7>>) -> x8

\* One Newton step x <- (x + a / x) / 2
SqrtStep(a, x) == Call("QMul", <<QHalf, QAdd(x, Call("QDiv", <<a, x>>))>>)

\* Math.sqrt of a non-negative number: the integer square root of the
\* leading digits la of a, then two Newton steps
SqrtOf(a, la) ==
  LET x0 == IF (la[2] + 9) % 2 = 0
            THEN MagOfNano(ISqrt(la[1]), (la[2] + 9) \div 2)
            ELSE MagOfNano(ISqrt(la[1] \div 10), (la[2] + 10) \div 2)
      x1 == SqrtStep(a, x0)
  IN CASE Known(<<x0, x1>>) -> SqrtStep(a, x1)
QSqrt(a) == CASE Known(<<a>>) -> IF a = QZero THEN QZero ELSE SqrtOf(a, MagLead(a))

\* Math.PI and its multiples, to nine digits
PI == <<3, 141592654>>
HalfPi == <<1, 570796327>>
TwoOverPi == <<0, 636619772>>

\* Taylor polynomials of sine and cosine on [-pi/4, pi/4]; z is r * r
PolySin(r, z) ==
  LET t5 == QSub(<<0, 2756>>, Call("QMul", <<z, <<0, 25>> >>))
      t4 == QSub(<<0, 198413>>, Call("QMul", <<z, t5>>))
      t3 == QSub(<<0, 8333333>>, Call("QMul", <<z, t4>>))
      t2 == QSub(<<0, 166666667>>, Call("QMul", <<z, t3>>))
  IN CASE Known(<<t5, t4, t3, t2>>) ->
       Call("QMul", <<r, QSub(QOne, Call("QMul", <<z, t2>>))>>)

PolyCos(r, z) ==
  LET t6 == QSub(<<0, 276>>, Call("QMul", <<z, <<0, 2>> >>))
      t5 == QSub(<<0, 24802>>, Call("QMul", <<z, t6>>))
      t4 == QSub(<<0, 1388889>>, Call("QMul", <<z, t5>>))
      t3 == QSub(<<0, 41666667>>, Call("QMul", <<z, t4>>))
      t2 == QSub(QHalf, Call("QMul", <<z, t3>>))
  IN CASE Known(<<t6, t5, t4, t3, t2>>) -> QSub(QOne, Call("QMul", <<z, t2>>))

\* The quadrant of an angle (the nearest multiple of pi/2) and the rest
Quadrant(a) == QFloor(QAdd(Call("QMul", <<a, TwoOverPi>>), QHalf))
Reduced(a, q) == QSub(a, Call("QMul", <<QInt(q), HalfPi>>))

\* The sine of r + k * pi/2 for r in [-pi/4, pi/4]
SinOf(r, k, z) ==
  CASE Known(<<r, z>>) ->
    IF k % 4 = 0 THEN PolySin(r, z)
    ELSE IF k % 4 = 1 THEN PolyCos(r, z)
    ELSE IF k % 4 = 2 THEN QNeg(PolySin(r, z))
    ELSE QNeg(PolyCos(r, z))
SinNear(r, k) == SinOf(r, k, Call("QMul", <<r, r>>))
SinAt(a, q, k) == CASE Known(<<q>>) -> SinNear(Reduced(a, q), q + k)

\* Math.sin and Math.cos of an angle in radians
QSin(a) == CASE Known(<<a>>) -> SinAt(a, Quadrant(a), 0)
QCos(a) == CASE Known(<<a>>) -> SinAt(a, Quadrant(a), 1)

\* One step of the iteration for arctan t: f <- f + tan(arctan t - f)
AtanStep(t, f) ==
  LET sn == Call("QSin", <<f>>)
      cs == Call("QCos", <<f>>)
      n == QSub(Call("QMul", <<t, cs>>), sn)
      d == QAdd(cs, Call("QMul", <<t, sn>>))
  IN CASE Known(<<t, f, sn, cs, n, d>>) -> QAdd(f, Call("QDiv", <<n, d>>))

\* arctan t for 0 <= t <= 1
AtanUnit(t) ==
  LET f0 == Call("QMul", <<t, QAdd(<<0, 785398163>>,
                                   Call("QMul", <<<<0, 273000000>>, QSub(QOne, t)>>))>>)
      f1 == Call("AtanStep", <<t, f0>>)
  IN CASE Known(<<t, f0, f1>>) -> Call("AtanStep", <<t, f1>>)

\* Math.atan2(y, x): the angle f of (|x|, |y|), then its quadrant
AtanSigned(y, x, f) ==
  CASE Known(<<f>>) ->
    IF QIsNeg(y) THEN QNeg(IF QIsNeg(x) THEN QSub(PI, f) ELSE f)
    ELSE IF QIsNeg(x) THEN QSub(PI, f) ELSE f
QAtan2(y, x) ==
  CASE Known(<<y, x>>) ->
    IF x = QZero /\ y = QZero THEN QZero
    ELSE IF QLe(QAbs(y), QAbs(x))
    THEN AtanSigned(y, x, AtanUnit(Call("QDiv", <<QAbs(y), QAbs(x)>>)))
    ELSE AtanSigned(y, x, QSub(HalfPi, AtanUnit(Call("QDiv", <<QAbs(x), QAbs(y)>>))))

\* Math.asin of a number in [-1, 1]
QAsin(a) ==
  CASE Known(<<a>>) ->
    Call("QAtan2", <<a, Call("QSqrt", <<QSub(QOne, Call("QMul", <<a, a>>))>>)>>)

\* Math.round(x * 10^d) / 10^d for 0 <= d <= 9 (Math.round rounds half up)
QRoundTo(a, d) ==
  IF ((a[2] + (10^(9 - d) \div 2)) \div 10^(9 - d)) * 10^(9 - d) >= Nano
  THEN <<a[1] + 1, 0>>
  ELSE <<a[1], ((a[2] + (10^(9 - d) \div 2)) \div 10^(9 - d)) * 10^(9 - d)>>

\* ----------------------------------------------------------------------
\* JavaScript values
\* ----------------------------------------------------------------------

\* The elements of a sequence
Range(f) == {f[i] : i \in DOMAIN f}

\* A value found where a number is expected: a finite number, NaN,
\* Infinity, -Infinity or undefined
Num(q) == [t |-> "num", v |-> q]
NaN == [t |-> "NaN", v |-> QZero]
Infinity == [t |-> "Infinity", v |-> QZero]
NegInfinity == [t |-> "-Infinity", v |-> QZero]
Undefined == [t |-> "undefined", v |-> QZero]

\* Number.isFinite
IsFinite(x) == x.t = "num"

\* A Coordinate object
Coordinate(lng, lat) == [longitude |-> lng, latitude |-> lat]

\* The three shapes transform accepts, and what ill-typed callers pass:
\* an array, an object with some of the keys lat, lng, longitude,
\* latitude, null and undefined
Keys == {"lat", "lng", "longitude", "latitude"}
NoVal == [k \in Keys |-> Undefined]
ArrayOf(items) == [shape |-> "array", items |-> items, has |-> {}, val |-> NoVal]
ObjectOf(has, val) ==
  [shape |-> "object", items |-> <<>>, has |-> has,
   val |-> [k \in Keys |-> IF k \in has THEN val[k] ELSE Undefined]]
Null == [shape |-> "null", items |-> <<>>, has |-> {}, val |-> NoVal]
UndefinedArg == [shape |-> "undefined", items |-> <<>>, has |-> {}, val |-> NoVal]

PointOf(lng, lat) == ArrayOf(<<lng, lat>>)
LatLngOf(lng, lat) == ObjectOf({"lat", "lng"}, [NoVal EXCEPT !["lng"] = lng, !["lat"] = lat])
CoordOf(lng, lat) ==
  ObjectOf({"longitude", "latitude"}, [NoVal EXCEPT !["longitude"] = lng, !["latitude"] = lat])

\* coord[i] of an array (undefined past its end)
Item(items, i) == IF i <= Len(items) THEN items[i] ELSE Undefined

\* What a call does: it returns a value or throws an error, or (the loop
\* of gcj02ToWGS84 has no cap) it never ends
NoCoord == Coordinate(QZero, QZero)
Returned(v) == [st |-> "returned", val |-> v, err |-> "none", msg |-> "none"]
Raised(e, m) == [st |-> "raised", val |-> NoCoord, err |-> e, msg |-> m]
Diverged == [st |-> "diverged", val |-> NoCoord, err |-> "none", msg |-> "none"]

\* ----------------------------------------------------------------------
\* CONFIG
\* ----------------------------------------------------------------------

CoordSystem == {"WGS84", "GCJ02", "BD09"}

ELLIPSOID_A == <<6378245, 0>>
ELLIPSOID_EE == <<0, 6693422>>
X_PI == Call("QDiv", <<Call("QMul", <<PI, <<3000, 0>> >>), <<180, 0>> >>)
LAT_MIN == <<0, 829300000>>
LAT_MAX == <<55, 827100000>>
LNG_MIN == <<72, 4000000>>
LNG_MAX == <<137, 834700000>>
PRECISION_COORDINATE == 8
PRECISION_THRESHOLD == <<0, 10>>

\* ----------------------------------------------------------------------
\* CoordinateTransformer
\* ----------------------------------------------------------------------

\* A copy that is rounded: not what cloneCoordinate makes
roundedCopy(coord) ==
  Coordinate(QRoundTo(coord.longitude, 8), QRoundTo(coord.latitude, 8))

cloneCoordinate(coord) == Coordinate(coord.longitude, coord.latitude)

roundCoordinate(coord) ==
  Coordinate(QRoundTo(coord.longitude, PRECISION_COORDINATE),
             QRoundTo(coord.latitude, PRECISION_COORDINATE))

\* The test of the latitude alone: it takes a point east or west of the
\* envelope for one inside
isOutOfChinaByLatitude(coord) ==
  \/ QLt(coord.latitude, LAT_MIN)
  \/ QGt(coord.latitude, LAT_MAX)

\* The test with <= and >=: it takes a point on the edge of the envelope
\* for one outside
isOutOfChinaOrOnEdge(coord) ==
  \/ QLe(coord.longitude, LNG_MIN)
  \/ QGe(coord.longitude, LNG_MAX)
  \/ QLe(coord.latitude, LAT_MIN)
  \/ QGe(coord.latitude, LAT_MAX)

isOutOfChina(coord) ==
  \/ QLt(coord.longitude, LNG_MIN)
  \/ QGt(coord.longitude, LNG_MAX)
  \/ QLt(coord.latitude, LAT_MIN)
  \/ QGt(coord.latitude, LAT_MAX)

\* Math.sin(u * Math.PI) and Math.sin(u / d * Math.PI)
SinPi(u) == Call("QSin", <<Call("QMul", <<u, PI>>)>>)
SinPiOver(u, d) == Call("QSin", <<Call("QMul", <<Call("QDiv", <<u, QInt(d)>>), PI>>)>>)

\* (a * s + b * t) * 2.0 / 3.0
TwoThirds(a, s, b, t) ==
  Call("QDiv", <<Call("QMul", <<QAdd(Call("QMul", <<QInt(a), s>>),
                                     Call("QMul", <<QInt(b), t>>)), <<2, 0>> >>),
                 <<3, 0>> >>)

transformLng(x, y) ==
  LET xx == Call("QMul", <<Call("QMul", <<<<0, 100000000>>, x>>), x>>)
      xy == Call("QMul", <<Call("QMul", <<<<0, 100000000>>, x>>), y>>)
      rt == Call("QMul", <<<<0, 100000000>>, Call("QSqrt", <<QAbs(x)>>)>>)
      r0 == QAdd(QAdd(QAdd(QAdd(QAdd(<<300, 0>>, x), Call("QMul", <<<<2, 0>>, y>>)), xx), xy), rt)
      s1 == SinPi(Call("QMul", <<<<6, 0>>, x>>))
      s2 == SinPi(Call("QMul", <<<<2, 0>>, x>>))
      r1 == QAdd(r0, TwoThirds(20, s1, 20, s2))
      s3 == SinPi(x)
      s4 == SinPiOver(x, 3)
      r2 == QAdd(r1, TwoThirds(20, s3, 40, s4))
      s5 == SinPiOver(x, 12)
      s6 == SinPiOver(x, 30)
  IN CASE Known(<<x, y, xx, xy, rt, r0, s1, s2, r1, s3, s4, r2, s5, s6>>) ->
       QAdd(r2, TwoThirds(150, s5, 300, s6))

transformLat(x, y) ==
  LET yy == Call("QMul", <<Call("QMul", <<<<0, 200000000>>, y>>), y>>)
      xy == Call("QMul", <<Call("QMul", <<<<0, 100000000>>, x>>), y>>)
      rt == Call("QMul", <<<<0, 200000000>>, Call("QSqrt", <<QAbs(x)>>)>>)
      r0 == QAdd(QAdd(QAdd(QAdd(QAdd(QNeg(<<100, 0>>), Call("QMul", <<<<2, 0>>, x>>)),
                                Call("QMul", <<<<3, 0>>, y>>)), yy), xy), rt)
      s1 == SinPi(Call("QMul", <<<<6, 0>>, x>>))
      s2 == SinPi(Call("QMul", <<<<2, 0>>, x>>))
      r1 == QAdd(r0, TwoThirds(20, s1, 20, s2))
      s3 == SinPi(y)
      s4 == SinPiOver(y, 3)
      r2 == QAdd(r1, TwoThirds(20, s3, 40, s4))
      s5 == SinPiOver(y, 12)
      s6 == Call("QSin", <<Call("QDiv", <<Call("QMul", <<y, PI>>), <<30, 0>> >>)>>)
  IN CASE Known(<<x, y, yy, xy, rt, r0, s1, s2, r1, s3, s4, r2, s5, s6>>) ->
       QAdd(r2, TwoThirds(160, s5, 320, s6))

calculateOffset(dLng, dLat) ==
  <<Call("transformLng", <<dLng, dLat>>), Call("transformLat", <<dLng, dLat>>)>>

wgs84ToGCJ02(coord) ==
  IF isOutOfChina(coord) THEN cloneCoordinate(coord)
  ELSE
    LET off == calculateOffset(QSub(coord.longitude, <<105, 0>>),
                               QSub(coord.latitude, <<35, 0>>))
        radLat == Call("QMul", <<Call("QDiv", <<coord.latitude, <<180, 0>> >>), PI>>)
        magic == Call("QSin", <<radLat>>)
        sqrtMagic ==
          Call("QSqrt", <<QSub(QOne, Call("QMul", <<Call("QMul", <<ELLIPSOID_EE, magic>>),
                                                    magic>>))>>)
        cube == Call("QMul", <<Call("QMul", <<sqrtMagic, sqrtMagic>>), sqrtMagic>>)
        latDen == Call("QMul", <<Call("QDiv", <<Call("QMul", <<ELLIPSOID_A,
                                                              QSub(QOne, ELLIPSOID_EE)>>),
                                                cube>>), PI>>)
        latOffset == Call("QDiv", <<Call("QMul", <<off[2], <<180, 0>> >>), latDen>>)
        lngDen == Call("QMul", <<Call("QMul", <<Call("QDiv", <<ELLIPSOID_A, sqrtMagic>>),
                                                Call("QCos", <<radLat>>)>>), PI>>)
        lngOffset == Call("QDiv", <<Call("QMul", <<off[1], <<180, 0>> >>), lngDen>>)
    IN CASE Known(<<coord, off, radLat, magic, sqrtMagic, cube, latDen, latOffset,
                    lngDen, lngOffset>>) ->
         roundCoordinate(Coordinate(QAdd(coord.longitude, lngOffset),
                                    QAdd(coord.latitude, latOffset)))

\* z * Math.cos(theta) and z * Math.sin(theta), moved by (dx, dy)
Polar(z, theta, dx, dy) ==
  CASE Known(<<z, theta>>) ->
    roundCoordinate(Coordinate(QAdd(Call("QMul", <<z, Call("QCos", <<theta>>)>>), dx),
                               QAdd(Call("QMul", <<z, Call("QSin", <<theta>>)>>), dy)))

\* Math.sqrt(x * x + y * y)
Hypot(x, y) ==
  Call("QSqrt", <<QAdd(Call("QMul", <<x, x>>), Call("QMul", <<y, y>>))>>)

bd09ToGCJ02(coord) ==
  LET x == QSub(coord.longitude, <<0, 6500000>>)
      y == QSub(coord.latitude, <<0, 6000000>>)
      rt == Hypot(x, y)
      z == QSub(rt, Call("QMul", <<<<0, 20000>>,
                                   Call("QSin", <<Call("QMul", <<y, X_PI>>)>>)>>))
      at == Call("QAtan2", <<y, x>>)
      theta == QSub(at, Call("QMul", <<<<0, 3000>>,
                                       Call("QCos", <<Call("QMul", <<x, X_PI>>)>>)>>))
  IN CASE Known(<<coord, rt, z, at, theta>>) -> Polar(z, theta, QZero, QZero)

gcj02ToBD09(coord) ==
  LET rt == Hypot(coord.longitude, coord.latitude)
      z == QAdd(rt, Call("QMul", <<<<0, 20000>>,
                                   Call("QSin", <<Call("QMul", <<coord.latitude, X_PI>>)>>)>>))
      at == Call("QAtan2", <<coord.latitude, coord.longitude>>)
      theta == QAdd(at, Call("QMul", <<<<0, 3000>>,
                                       Call("QCos", <<Call("QMul", <<coord.longitude, X_PI>>)>>)>>))
  IN CASE Known(<<coord, rt, z, at, theta>>) ->
       Polar(z, theta, <<0, 6500000>>, <<0, 6000000>>)

\* The guess wgs84 of the loop of gcj02ToWGS84 with its error delta: what
\* lines 219-223 and 231-235 compute from a guess
Guess(coord, wgs84, gcj02) ==
  CASE Known(<<gcj02>>) ->
    [wgs84 |-> wgs84,
     delta |-> Coordinate(QSub(gcj02.longitude, coord.longitude),
                          QSub(gcj02.latitude, coord.latitude))]

\* gcj02ToWGS84, lines 218-223: the first guess and its error
LoopInit(coord) ==
  CASE Known(<<coord>>) ->
    Guess(coord, cloneCoordinate(coord), Call("wgs84ToGCJ02", <<cloneCoordinate(coord)>>))

\* the condition of the while loop
LoopCond(it) ==
  \/ QGt(QAbs(it.delta.longitude), PRECISION_THRESHOLD)
  \/ QGt(QAbs(it.delta.latitude), PRECISION_THRESHOLD)

\* the body of the while loop
NextGuess(it) ==
  Coordinate(QSub(it.wgs84.longitude, it.delta.longitude),
             QSub(it.wgs84.latitude, it.delta.latitude))
LoopBody(coord, it) ==
  CASE Known(<<coord, it>>) ->
    Guess(coord, NextGuess(it), Call("wgs84ToGCJ02", <<NextGuess(it)>>))

\* How many iterations the loop is followed when a whole call is taken in
\* one step.  The loop itself has no cap.
MaxIter == 8

\* The loop run to its end: "exit" with the last guess, "cycle" when the
\* loop comes back to a state it was in before (it then never ends), and
\* "fuel" if neither happened within MaxIter iterations.
RECURSIVE RunLoop(_, _, _, _)
RunLoop(coord, it, seen, n) ==
  CASE Known(<<it, seen>>) ->
    IF ~LoopCond(it) THEN [tag |-> "exit", it |-> it]
    ELSE IF it \in seen THEN [tag |-> "cycle", it |-> it]
    ELSE IF n = 0 THEN [tag |-> "fuel", it |-> it]
    ELSE RunLoop(coord, LoopBody(coord, it), seen \cup {it}, n - 1)

\* What the loop ends in: the rounded guess, or no end
LoopEnd(r) == IF r.tag = "exit" THEN Returned(roundCoordinate(r.it.wgs84)) ELSE Diverged

gcj02ToWGS84(coord) ==
  CASE Known(<<coord>>) ->
    IF isOutOfChina(coord) THEN Returned(cloneCoordinate(coord))
    ELSE LoopEnd(RunLoop(coord, LoopInit(coord), {}, MaxIter))

\* The GCJ02 coordinate that toWGS84 hands to gcj02ToWGS84
GcjOf(coord, from) == IF from = "BD09" THEN Call("bd09ToGCJ02", <<coord>>) ELSE coord

toWGS84(coord, from) ==
  IF from = "WGS84" THEN Returned(cloneCoordinate(coord))
  ELSE IF from \in {"GCJ02", "BD09"} THEN gcj02ToWGS84(GcjOf(coord, from))
  ELSE Raised("CoordinateError", "unsupported source system")

\* fromWGS84 whose BD09 case leaves out wgs84ToGCJ02: the polar mapping
\* alone
fromWGS84ByPolarAlone(coord, to) ==
  IF to = "WGS84" THEN Returned(cloneCoordinate(coord))
  ELSE IF to = "GCJ02" THEN Returned(Call("wgs84ToGCJ02", <<coord>>))
  ELSE IF to = "BD09" THEN Returned(Call("gcj02ToBD09", <<coord>>))
  ELSE Raised("CoordinateError", "unsupported target system")

fromWGS84(coord, to) ==
  IF to = "WGS84" THEN Returned(cloneCoordinate(coord))
  ELSE IF to = "GCJ02" THEN Returned(Call("wgs84ToGCJ02", <<coord>>))
  ELSE IF to = "BD09"
  THEN Returned(Call("gcj02ToBD09", <<Call("wgs84ToGCJ02", <<coord>>)>>))
  ELSE Raised("CoordinateError", "unsupported target system")

\* normalizeCoordinate: the Coordinate (of JavaScript values) it returns;
\* the in operator throws a TypeError on null and undefined
normalizeCoordinate(coord) ==
  IF coord.shape = "array"
  THEN Returned(Coordinate(Item(coord.items, 1), Item(coord.items, 2)))
  ELSE IF coord.shape \in {"null", "undefined"}
  THEN Raised("TypeError", "in operator on a non-object")
  ELSE IF "lat" \in coord.has /\ "lng" \in coord.has
  THEN Returned(Coordinate(coord.val["lng"], coord.val["lat"]))
  ELSE Returned(Coordinate(coord.val["longitude"], coord.val["latitude"]))

\* The first test of validateCoordinate alone: numbers of any size pass
validateFinite(coord) ==
  IF ~IsFinite(coord.longitude) \/ ~IsFinite(coord.latitude)
  THEN Raised("CoordinateError", "not finite")
  ELSE Returned(NoCoord)

\* validateCoordinate: it returns nothing, or throws
validateCoordinate(coord) ==
  IF ~IsFinite(coord.longitude) \/ ~IsFinite(coord.latitude)
  THEN Raised("CoordinateError", "not finite")
  ELSE IF QGt(QAbs(coord.longitude.v), <<180, 0>>) \/ QGt(QAbs(coord.latitude.v), <<90, 0>>)
  THEN Raised("CoordinateError", "out of range")
  ELSE Returned(NoCoord)

\* The numbers of a validated Coordinate
Numbers(coord) == Coordinate(coord.longitude.v, coord.latitude.v)

\* transform, lines 155-162, of a normalized and validated coordinate
Convert(coord, from, to, wgs84Coord) ==
  IF from = to THEN Returned(cloneCoordinate(coord))
  ELSE IF wgs84Coord.st # "returned" THEN wgs84Coord
  ELSE fromWGS84(wgs84Coord.val, to)

\* transform, lines 152-153, of what normalizeCoordinate gave
Validated(n, from, to) ==
  IF n.st # "returned" THEN n
  ELSE IF validateCoordinate(n.val).st # "returned" THEN validateCoordinate(n.val)
  ELSE Convert(Numbers(n.val), from, to, toWGS84(Numbers(n.val), from))

transform(coord, from, to) == Validated(normalizeCoordinate(coord), from, to)

\* Which object a function returns, obj being the one it was given: obj
\* itself, or "new" for one that the function makes.
\* normalizeCoordinate makes an object of an array and of {lat, lng}, and
\* returns a Coordinate as it is
normalizedObject(coord, obj) ==
  IF coord.shape = "array" \/ ("lat" \in coord.has /\ "lng" \in coord.has) THEN "new"
  ELSE obj

\* cloneCoordinate that returns the object it was given
clonedObjectShared(obj) == obj

\* cloneCoordinate, { ...coord }, and roundCoordinate, an object literal
clonedObject(obj) == "new"
roundedObject(obj) == "new"

wgs84ToGCJ02Object(coord, obj) ==
  IF isOutOfChina(coord) THEN clonedObject(obj) ELSE roundedObject("new")

gcj02ToWGS84Object(coord, obj) ==
  IF isOutOfChina(coord) THEN clonedObject(obj) ELSE roundedObject(clonedObject(obj))

toWGS84Object(coord, from, obj) ==
  IF from = "WGS84" THEN clonedObject(obj)
  ELSE IF from = "GCJ02" THEN gcj02ToWGS84Object(coord, obj)
  ELSE gcj02ToWGS84Object(Call("GcjOf", <<coord, from>>), roundedObject(obj))

fromWGS84Object(coord, to, obj) ==
  IF to = "WGS84" THEN clonedObject(obj)
  ELSE IF to = "GCJ02" THEN wgs84ToGCJ02Object(coord, obj)
  ELSE roundedObject(wgs84ToGCJ02Object(coord, obj))

\* The object that a call of transform which returns hands back
ConvertObject(coord, from, to, obj) ==
  IF from = to THEN clonedObject(obj)
  ELSE fromWGS84Object(Call("toWGS84", <<coord, from>>).val, to,
                       toWGS84Object(coord, from, obj))

transformObject(coord, from, to, obj) ==
  ConvertObject(Numbers(normalizeCoordinate(coord).val), from, to,
                normalizedObject(coord, obj))

\* x * rad and x / rad for rad = Math.PI / 180
MulRad(x) == Call("QDiv", <<Call("QMul", <<x, PI>>), <<180, 0>> >>)
DivRad(x) == Call("QDiv", <<Call("QMul", <<x, <<180, 0>> >>), PI>>)

\* a % 360 for a non-negative a
Mod360(a) == <<a[1] % 360, a[2]>>

\* getOffsetCoordinate, lines 498-518: newCoord from the WGS84 point.
\* Math.asin is NaN outside [-1, 1], and NaN spreads to both fields.
Landing(lon1, sinLat1, cosLat1, sinD, cosD, brng, arg) ==
  LET lat2 == Call("QAsin", <<arg>>)
      ty == Call("QMul", <<Call("QMul", <<Call("QSin", <<brng>>), sinD>>), cosLat1>>)
      tx == QSub(cosD, Call("QMul", <<sinLat1, Call("QSin", <<lat2>>)>>))
      lon2 == QAdd(lon1, Call("QAtan2", <<ty, tx>>))
      lng == QSub(Mod360(QAdd(DivRad(lon2), <<540, 0>>)), <<180, 0>>)
  IN CASE Known(<<lat2, ty, tx, lon2, lng>>) -> CoordOf(Num(lng), Num(DivRad(lat2)))

newCoord(wgs84Point, distance, bearing) ==
  LET lat1 == MulRad(wgs84Point.latitude)
      lon1 == MulRad(wgs84Point.longitude)
      brng == MulRad(bearing)
      dR == Call("QDiv", <<distance, <<6371000, 0>> >>)
      sinLat1 == Call("QSin", <<lat1>>)
      cosLat1 == Call("QCos", <<lat1>>)
      sinD == Call("QSin", <<dR>>)
      cosD == Call("QCos", <<dR>>)
      arg == QAdd(Call("QMul", <<sinLat1, cosD>>),
                  Call("QMul", <<Call("QMul", <<cosLat1, sinD>>), Call("QCos", <<brng>>)>>))
  IN CASE Known(<<lat1, lon1, brng, dR, sinLat1, cosLat1, sinD, cosD, arg>>) ->
       IF QGt(QAbs(arg), QOne) THEN CoordOf(NaN, NaN)
       ELSE Landing(lon1, sinLat1, cosLat1, sinD, cosD, brng, arg)

\* getDistance, lines 402-408: a, c and R * c. Math.sqrt(1 - a) is NaN for
\* an a above 1, and NaN spreads to the result.
Arc(a) ==
  IF QGt(a, QOne) THEN NaN
  ELSE Num(Call("QMul", <<(<<6371000, 0>>),
         Call("QMul", <<(<<2, 0>>),
           Call("QAtan2", <<Call("QSqrt", <<a>>), Call("QSqrt", <<QSub(QOne, a)>>)>>)>>)>>))

Haversine(lat1, lat2, dLon) ==
  LET sLat == Call("QSin", <<Call("QDiv", <<QSub(lat2, lat1), (<<2, 0>>)>>)>>)
      sLon == Call("QSin", <<Call("QDiv", <<dLon, (<<2, 0>>)>>)>>)
      cc == Call("QMul", <<Call("QCos", <<lat1>>), Call("QCos", <<lat2>>)>>)
      a == QAdd(Call("QMul", <<sLat, sLat>>),
                Call("QMul", <<Call("QMul", <<cc, sLon>>), sLon>>))
  IN CASE Known(<<lat1, lat2, dLon, sLat, sLon, cc, a>>) -> Arc(a)

\* getDistance, lines 391-408, of the two WGS84 points
distanceOf(point1, point2) ==
  Haversine(MulRad(point1.latitude), MulRad(point2.latitude),
            QSub(MulRad(point2.longitude), MulRad(point1.longitude)))

\* isPointInPolygon, lines 428-432: intersect for the vertices i and j
Intersects(vi, vj, targetPoint) ==
  /\ QGt(vi.latitude, targetPoint.latitude) # QGt(vj.latitude, targetPoint.latitude)
  /\ QLt(targetPoint.longitude,
         QAdd(Call("QDiv", <<Call("QMul", <<QSub(vj.longitude, vi.longitude),
                                            QSub(targetPoint.latitude, vi.latitude)>>),
                             QSub(vj.latitude, vi.latitude)>>),
              vi.longitude))

\* isPointInPolygon, lines 426-437: the for loop from i on, j = i++
RECURSIVE InsideFrom(_, _, _, _, _)
InsideFrom(vertices, targetPoint, i, j, inside) ==
  IF i > Len(vertices) THEN inside
  ELSE InsideFrom(vertices, targetPoint, i + 1, i,
                  IF Intersects(vertices[i], vertices[j], targetPoint)
                  THEN ~inside ELSE inside)

\* The loop without the edge from the last vertex to the first
insideOfOpenChain(targetPoint, vertices) ==
  InsideFrom(vertices, targetPoint, 2, 1, FALSE)

insideOf(targetPoint, vertices) ==
  InsideFrom(vertices, targetPoint, 1, Len(vertices), FALSE)

\* calculatePolygonArea, lines 461-466: xi * Math.sin(yj) - xj * Math.sin(yi)
AreaTerm(vi, vj) ==
  LET xi == MulRad(vi.longitude)
      yi == MulRad(vi.latitude)
      xj == MulRad(vj.longitude)
      yj == MulRad(vj.latitude)
  IN CASE Known(<<xi, yi, xj, yj>>) ->
       QSub(Call("QMul", <<xi, Call("QSin", <<yj>>)>>),
            Call("QMul", <<xj, Call("QSin", <<yi>>)>>))

\* calculatePolygonArea, lines 457-467: the for loop from i on,
\* j = (i + 1) % vertices.length
RECURSIVE AreaFrom(_, _, _)
AreaFrom(vertices, i, area) ==
  CASE Known(<<area>>) ->
    IF i > Len(vertices) THEN area
    ELSE AreaFrom(vertices, i + 1,
                  QAdd(area, AreaTerm(vertices[i], vertices[(i % Len(vertices)) + 1])))

\* calculatePolygonArea, lines 454-470, of the WGS84 vertices:
\* Math.abs(area * R * R / 2)
areaOf(vertices) ==
  QAbs(Call("QDiv", <<Call("QMul", <<Call("QMul", <<AreaFrom(vertices, 1, QZero),
                                                   (<<6371000, 0>>)>>),
                                     (<<6371000, 0>>)>>),
                     (<<2, 0>>)>>))

\* f applied to the values v
Call(f, v) ==
  CASE f = "QMul" -> QMul(v[1], v[2])
    [] f = "QDiv" -> QDiv(v[1], v[2])
    [] f = "MagDivRound" -> MagDivRound(v[1], v[2], v[3])
    [] f = "MagDivUp" -> MagDivUp(v[1], v[2], v[3])
    [] f = "MagDivScaled" -> MagDivScaled(v[1], v[2])
    [] f = "QSin" -> QSin(v[1])
    [] f = "QCos" -> QCos(v[1])
    [] f = "QSqrt" -> QSqrt(v[1])
    [] f = "AtanStep" -> AtanStep(v[1], v[2])
    [] f = "QAtan2" -> QAtan2(v[1], v[2])
    [] f = "QAsin" -> QAsin(v[1])
    [] f = "transformLng" -> transformLng(v[1], v[2])
    [] f = "transformLat" -> transformLat(v[1], v[2])
    [] f = "wgs84ToGCJ02" -> wgs84ToGCJ02(v[1])
    [] f = "bd09ToGCJ02" -> bd09ToGCJ02(v[1])
    [] f = "gcj02ToBD09" -> gcj02ToBD09(v[1])
    [] f = "GcjOf" -> GcjOf(v[1], v[2])
    [] f = "LoopInit" -> LoopInit(v[1])
    [] f = "LoopBody" -> LoopBody(v[1], v[2])
    [] f = "fromWGS84" -> fromWGS84(v[1], v[2])
    [] f = "toWGS84" -> toWGS84(v[1], v[2])
    [] f = "transform" -> transform(v[1], v[2], v[3])
    [] f = "newCoord" -> newCoord(v[1], v[2], v[3])
    [] f = "distanceOf" -> distanceOf(v[1], v[2])
    [] f = "insideOf" -> insideOf(v[1], v[2])
    [] f = "areaOf" -> areaOf(v[1])

\* ----------------------------------------------------------------------
\* The calls of the API, step by step
\* ----------------------------------------------------------------------

\* What a call of the API does next, given the coordinates its calls of
\* transform have returned so far: another call of transform, or its end
CallOf(coord, from, to) ==
  [tag |-> "call", coord |-> coord, from |-> from, to |-> to, out |-> Diverged]
FinishOf(o) ==
  [tag |-> "finish", coord |-> Null, from |-> "WGS84", to |-> "WGS84", out |-> o]

\* transform called from outside
transformCall(coord, from, to, rets) ==
  IF rets = <<>> THEN CallOf(coord, from, to) ELSE FinishOf(Returned(rets[1]))

\* coords.map(coord => this.transform(coord, from, to))
batchTransform(coords, from, to, rets) ==
  IF Len(rets) < Len(coords) THEN CallOf(coords[Len(rets) + 1], from, to)
  ELSE FinishOf(Returned(rets))

getOffsetCoordinate(coord, distance, bearing, system, rets) ==
  IF ~IsFinite(distance) \/ QLt(distance.v, QZero)
  THEN FinishOf(Raised("CoordinateError", "distance"))
  ELSE IF ~IsFinite(bearing) \/ QLt(bearing.v, QZero) \/ QGt(bearing.v, <<360, 0>>)
  THEN FinishOf(Raised("CoordinateError", "bearing"))
  ELSE IF Len(rets) = 0 THEN CallOf(coord, system, "WGS84")
  ELSE IF Len(rets) = 1
  THEN CallOf(Call("newCoord", <<rets[1], distance.v, bearing.v>>), "WGS84", system)
  ELSE FinishOf(Returned(rets[2]))

getDistance(coord1, coord2, system, rets) ==
  IF Len(rets) = 0 THEN CallOf(coord1, system, "WGS84")
  ELSE IF Len(rets) = 1 THEN CallOf(coord2, system, "WGS84")
  ELSE FinishOf(Returned(Call("distanceOf", <<rets[1], rets[2]>>)))

\* isPointInPolygon that takes the last vertex for the copy of the first
\* and leaves it out
isPointInPolygonOfClosedRing(point, polygon, system, rets) ==
  IF Len(rets) = 0 THEN CallOf(point, system, "WGS84")
  ELSE IF Len(rets) <= Len(polygon) THEN CallOf(polygon[Len(rets)], system, "WGS84")
  ELSE FinishOf(Returned(Call("insideOf", <<rets[1], SubSeq(rets, 2, Len(rets) - 1)>>)))

\* rets holds targetPoint, then the vertices
isPointInPolygon(point, polygon, system, rets) ==
  IF Len(rets) = 0 THEN CallOf(point, system, "WGS84")
  ELSE IF Len(rets) <= Len(polygon) THEN CallOf(polygon[Len(rets)], system, "WGS84")
  ELSE FinishOf(Returned(Call("insideOf", <<rets[1], Tail(rets)>>)))

\* calculatePolygonArea that transforms the vertices before it looks at
\* their number
calculatePolygonAreaOfTransformed(polygon, system, rets) ==
  IF Len(rets) < Len(polygon) THEN CallOf(polygon[Len(rets) + 1], system, "WGS84")
  ELSE IF Len(polygon) < 3 THEN FinishOf(Returned(Num(QZero)))
  ELSE FinishOf(Returned(Num(Call("areaOf", <<rets>>))))

calculatePolygonArea(polygon, system, rets) ==
  IF Len(polygon) < 3 THEN FinishOf(Returned(Num(QZero)))
  ELSE IF Len(rets) < Len(polygon) THEN CallOf(polygon[Len(rets) + 1], system, "WGS84")
  ELSE FinishOf(Returned(Num(Call("areaOf", <<rets>>))))

\* Math.min and Math.max of two values: NaN if one of them is NaN or
\* undefined
MathMin(x, y) ==
  IF x.t \in {"NaN", "undefined"} \/ y.t \in {"NaN", "undefined"} THEN NaN
  ELSE IF x.t = "-Infinity" \/ y.t = "-Infinity" THEN NegInfinity
  ELSE IF x.t = "Infinity" THEN y
  ELSE IF y.t = "Infinity" THEN x
  ELSE IF QLt(y.v, x.v) THEN y ELSE x

MathMax(x, y) ==
  IF x.t \in {"NaN", "undefined"} \/ y.t \in {"NaN", "undefined"} THEN NaN
  ELSE IF x.t = "Infinity" \/ y.t = "Infinity" THEN Infinity
  ELSE IF x.t = "-Infinity" THEN y
  ELSE IF y.t = "-Infinity" THEN x
  ELSE IF QGt(y.v, x.v) THEN y ELSE x

\* coord.latitude, coord.longitude of an element that is not null
Field(coord, k) == IF coord.shape = "object" THEN coord.val[k] ELSE Undefined

BoundingBox(minLat, maxLat, minLng, maxLng) ==
  [minLat |-> minLat, maxLat |-> maxLat, minLng |-> minLng, maxLng |-> maxLng]

\* The callback of reduce with Math.min in the place of Math.max for
\* maxLng
extendBoxByMin(box, coord) ==
  BoundingBox(MathMin(box.minLat, Field(coord, "latitude")),
              MathMax(box.maxLat, Field(coord, "latitude")),
              MathMin(box.minLng, Field(coord, "longitude")),
              MathMin(box.maxLng, Field(coord, "longitude")))

\* The callback of reduce, lines 604-609
extendBox(box, coord) ==
  BoundingBox(MathMin(box.minLat, Field(coord, "latitude")),
              MathMax(box.maxLat, Field(coord, "latitude")),
              MathMin(box.minLng, Field(coord, "longitude")),
              MathMax(box.maxLng, Field(coord, "longitude")))

\* coords.reduce(callback, box) from the i-th element on
RECURSIVE Reduce(_, _, _)
Reduce(coords, i, box) ==
  IF i > Len(coords) THEN box ELSE Reduce(coords, i + 1, extendBox(box, coords[i]))

\* The box of the whole array: reading a field of null or undefined
\* throws a TypeError
boxOfAll(coords) ==
  IF \E i \in 1 .. Len(coords) : coords[i].shape \in {"null", "undefined"}
  THEN Raised("TypeError", "property of null")
  ELSE Returned(Reduce(coords, 1,
         BoundingBox(Field(coords[1], "latitude"), Field(coords[1], "latitude"),
                     Field(coords[1], "longitude"), Field(coords[1], "longitude"))))

\* A box whose longitudes are exchanged when they are more than 180
\* apart: the box across the date line
unwrapped(r) ==
  IF /\ r.st = "returned" /\ r.val.minLng.t = "num" /\ r.val.maxLng.t = "num"
     /\ QGt(QSub(r.val.maxLng.v, r.val.minLng.v), <<180, 0>>)
  THEN Returned([r.val EXCEPT !.minLng = r.val.maxLng, !.maxLng = r.val.minLng])
  ELSE r

\* createBoundingBox with the date line unwrapped
createBoundingBoxUnwrapped(coords) ==
  IF Len(coords) = 0 THEN Raised("CoordinateError", "empty")
  ELSE unwrapped(boxOfAll(coords))

\* createBoundingBox that validates each coordinate, as transform does
createBoundingBoxValidated(coords) ==
  IF Len(coords) = 0 THEN Raised("CoordinateError", "empty")
  ELSE IF \E i \in 1 .. Len(coords) :
            validateCoordinate(Coordinate(Field(coords[i], "longitude"),
                                          Field(coords[i], "latitude"))).st = "raised"
  THEN Raised("CoordinateError", "not valid")
  ELSE boxOfAll(coords)

createBoundingBox(coords) ==
  IF Len(coords) = 0 THEN Raised("CoordinateError", "empty")
  ELSE boxOfAll(coords)

\* CoordinateTransformer objects, numbered as new makes them; the static
\* field instance is undefined until the first of them is made
NoInstance == [object |-> 0]
NewTransformer(instance) == [object |-> instance.object + 1]

\* getInstance that makes a transformer at every call
getInstanceAnew(instance) == NewTransformer(instance)

\* getInstance: what it leaves in the static field, which it returns
getInstance(instance) ==
  IF instance = NoInstance THEN NewTransformer(instance) ELSE instance

\* export const transformer = CoordinateTransformer.getInstance(), as the
\* module is loaded
transformer == getInstance(NoInstance)

NoOp ==
  [name |-> "none", coords |-> <<>>, polygon |-> <<>>, from |-> "WGS84", to |-> "WGS84",
   distance |-> Num(QZero), bearing |-> Num(QZero)]

Script(o, rets) ==
  IF o.name = "transform" THEN transformCall(o.coords[1], o.from, o.to, rets)
  ELSE IF o.name = "batchTransform" THEN batchTransform(o.coords, o.from, o.to, rets)
  ELSE IF o.name = "createBoundingBox" THEN FinishOf(createBoundingBox(o.coords))
  ELSE IF o.name = "getDistance" THEN getDistance(o.coords[1], o.coords[2], o.from, rets)
  ELSE IF o.name = "isPointInPolygon"
  THEN isPointInPolygon(o.coords[1], o.polygon, o.from, rets)
  ELSE IF o.name = "calculatePolygonArea" THEN calculatePolygonArea(o.polygon, o.from, rets)
  ELSE getOffsetCoordinate(o.coords[1], o.distance, o.bearing, o.from, rets)

\* Whether a call of transform reaches the while loop of gcj02ToWGS84
EntersLoop(coord, from, to) ==
  LET n == normalizeCoordinate(coord)
  IN /\ n.st = "returned"
     /\ validateCoordinate(n.val).st = "returned"
     /\ from # to
     /\ from \in {"GCJ02", "BD09"}
     /\ ~isOutOfChina(Call("GcjOf", <<Numbers(n.val), from>>))

\* A call of the API run to its end from the coordinates rets that its
\* calls of transform have returned: what it returns or raises, or no end
RECURSIVE Outcome(_, _)
Continued(o, rets, t) == IF t.st = "returned" THEN Outcome(o, Append(rets, t.val)) ELSE t
Stepped(o, rets, s) ==
  CASE Known(<<s>>) ->
    IF s.tag = "finish" THEN s.out
    ELSE Continued(o, rets, Call("transform", <<s.coord, s.from, s.to>>))
Outcome(o, rets) == Stepped(o, rets, Script(o, rets))

\* ----------------------------------------------------------------------
\* Arguments of the calls
\* ----------------------------------------------------------------------

\* Points, as <<longitude, latitude>>
Beijing == <<(<<116, 404000000>>), (<<39, 915000000>>)>>
OffGrid == <<(<<116, 404123456>>), (<<39, 915987654>>)>>
CornerSW == <<LNG_MIN, LAT_MIN>>
CornerNE == <<LNG_MAX, LAT_MAX>>
CornerNW == <<LNG_MIN, LAT_MAX>>
CornerSE == <<LNG_MAX, LAT_MIN>>
EdgeS == <<(<<100, 0>>), LAT_MIN>>
Origin == <<QZero, QZero>>
East == <<(<<150, 0>>), (<<45, 0>>)>>
JustOutside == <<(<<72, 3999999>>), (<<30, 0>>)>>
RangeMax == <<(<<180, 0>>), (<<90, 0>>)>>
RangeMin == <<(<<-180, 0>>), (<<-90, 0>>)>>

InsidePoints == {Beijing, OffGrid, CornerSW, CornerNE, CornerNW, CornerSE, EdgeS}
OutsidePoints == {Origin, East, JustOutside, RangeMax, RangeMin}
ValidPoints == InsidePoints \cup OutsidePoints

\* Pairs of values of which one is not a finite number within the range
InvalidPairs ==
  {<<Num(<<181, 0>>), Num(QZero)>>,
   <<Num(QZero), Num(<<91, 0>>)>>,
   <<Num(<<-181, 999999999>>), Num(<<39, 915000000>>)>>,
   <<Num(<<116, 404000000>>), Num(<<-91, 999999999>>)>>,
   <<NaN, Num(<<39, 915000000>>)>>,
   <<Num(<<116, 404000000>>), NaN>>,
   <<Infinity, Num(<<39, 915000000>>)>>,
   <<Num(<<116, 404000000>>), NegInfinity>>}

\* The three shapes of an argument that holds the pair
ShapesOf(lng, lat) == {CoordOf(lng, lat), PointOf(lng, lat), LatLngOf(lng, lat)}

\* Arguments that hold no pair of numbers
Malformed ==
  {Null, UndefinedArg,
   ObjectOf({}, NoVal),
   ObjectOf({"longitude"}, [NoVal EXCEPT !["longitude"] = Num(<<116, 404000000>>)]),
   ObjectOf({"latitude"}, [NoVal EXCEPT !["latitude"] = Num(<<39, 915000000>>)]),
   ObjectOf({"lat"}, [NoVal EXCEPT !["lat"] = Num(<<39, 915000000>>)]),
   ObjectOf({"lng"}, [NoVal EXCEPT !["lng"] = Num(<<116, 404000000>>)]),
   ArrayOf(<<Num(<<116, 404000000>>)>>),
   ArrayOf(<<>>)}

TransformInputs ==
  {CoordOf(Num(p[1]), Num(p[2])) : p \in ValidPoints}
    \cup UNION {ShapesOf(Num(p[1]), Num(p[2])) : p \in {Beijing, OffGrid, Origin, RangeMax, RangeMin}}
    \cup UNION {ShapesOf(v[1], v[2]) : v \in InvalidPairs}
    \cup Malformed

\* The names of systems a caller may pass: the three of CoordSystem and
\* one that is none of them
Systems == CoordSystem \cup {"INVALID"}

\* Elements and length of the arrays given to batchTransform
BatchElems ==
  {CoordOf(Num(Beijing[1]), Num(Beijing[2])),
   CoordOf(Num(Origin[1]), Num(Origin[2])),
   CoordOf(NaN, Num(<<39, 915000000>>)),
   CoordOf(Num(CornerSW[1]), Num(CornerSW[2]))}
MaxBatch == 2
Batches == UNION {[1 .. n -> BatchElems] : n \in 0 .. MaxBatch}

\* Arguments of getOffsetCoordinate
OffsetCoords ==
  {CoordOf(Num(p[1]), Num(p[2])) :
     p \in {Beijing, CornerSW, Origin, RangeMax, RangeMin, <<(<<180, 0>>), QZero>>,
            <<QZero, (<<9, 0>>)>>}}
    \cup {CoordOf(Num(<<116, 404000000>>), NaN), CoordOf(Num(<<-181, 0>>), Num(QZero))}
Distances ==
  {Num(QZero), Num(<<1000, 0>>), Num(<<9006789, 100000000>>),
   Num(<<-1, 0>>), Num(<<-1, 999999999>>),
   NaN, Infinity, NegInfinity}
Bearings ==
  {Num(QZero), Num(<<90, 0>>), Num(<<360, 0>>), Num(<<-1, 0>>), Num(<<-1, 999999999>>),
   Num(<<360, 1>>), Num(<<361, 0>>), NaN, Infinity, NegInfinity}

\* Arguments of getDistance
DistanceCoords ==
  {CoordOf(Num(p[1]), Num(p[2])) : p \in {Beijing, CornerSW, Origin, RangeMax, RangeMin}}
    \cup {CoordOf(NaN, Num(<<39, 915000000>>)), CoordOf(Num(<<181, 0>>), Num(QZero))}

\* The point x steps east and y steps north of (116.1, 39.1), in steps of
\* 0.05 degrees
At(x, y) ==
  CoordOf(Num(<<116, (x + 2) * 50000000>>), Num(<<39, (y + 2) * 50000000>>))

\* Polygons: none, a square, an L (it has a reflex vertex), a triangle
\* given clockwise, the same triangle with its ring closed by a copy of
\* the first vertex, and two triangles with a vertex that is no valid
\* coordinate
Polygons ==
  {<< >>,
   <<At(0, 0), At(4, 0), At(4, 4), At(0, 4)>>,
   <<At(0, 0), At(4, 0), At(4, 2), At(2, 2), At(2, 4), At(0, 4)>>,
   <<At(0, 0), At(0, 4), At(4, 0)>>,
   <<At(0, 0), At(0, 4), At(4, 0), At(0, 0)>>,
   <<At(0, 0), At(4, 0), CoordOf(Num(<<116, 300000000>>), Infinity)>>,
   <<At(0, 0), CoordOf(Num(<<116, 300000000>>), Num(<<-91, 999999999>>)), At(0, 4)>>}

\* Points off the lines of the vertices, a point level with a reflex
\* vertex, three vertices, and a point that is no valid coordinate
PolygonPoints ==
  {At(1, 1), At(3, 3), At(5, 1), At(-1, 1), At(1, 2), At(0, 0), At(4, 4), At(2, 2),
   CoordOf(NegInfinity, Num(<<39, 150000000>>))}

\* Vertex lists too short for a polygon, of any elements
ShortLists ==
  UNION {[1 .. n -> {At(0, 0), CoordOf(NaN, Num(<<39, 915000000>>)),
                     CoordOf(Num(<<181, 0>>), Num(<<-91, 0>>)), Null}] : n \in 0 .. 2}

\* Elements and length of the arrays given to createBoundingBox
BoxElems ==
  {CoordOf(Num(<<179, 0>>), Num(QZero)),
   CoordOf(Num(<<-179, 0>>), Num(QOne)),
   CoordOf(Num(Beijing[1]), Num(Beijing[2])),
   CoordOf(NaN, Num(<<39, 915000000>>)),
   CoordOf(Num(<<181, 0>>), Num(<<-91, 0>>)),
   Null}
MaxPoints == 3
PointLists == UNION {[1 .. n -> BoxElems] : n \in 0 .. MaxPoints}

\* ----------------------------------------------------------------------
\* State
\* ----------------------------------------------------------------------

VARIABLES
  op,    \* the call of the API that is running
  pc,    \* "idle", "run" (between calls of transform), "loop", "done"
  rets,  \* what the calls of transform made by op have returned so far
  call,  \* in the loop: the GCJ02 coordinate being inverted and the target
  it,    \* in the loop: wgs84 and delta
  out,   \* at "done": what op returned or raised
  given, \* the coordinates and the arrays as the caller passed them to op
  objs,  \* for each of rets, the object it is: "argument" or "new"
  instance \* the static field CoordinateTransformer.instance

vars == <<op, pc, rets, call, it, out, given, objs, instance>>

\* The objects of the caller that a call can reach
ArgumentsOf(o) == [coords |-> o.coords, polygon |-> o.polygon]

NoCall == [gcj |-> NoCoord, to |-> "WGS84"]
NoIt == [wgs84 |-> NoCoord, delta |-> NoCoord]
NoOut == Diverged

Init ==
  /\ op = NoOp
  /\ pc = "idle"
  /\ rets = <<>>
  /\ call = NoCall
  /\ it = NoIt
  /\ out = NoOut
  /\ given = ArgumentsOf(NoOp)
  /\ objs = <<>>
  /\ instance = transformer

\* CoordinateTransformer.getInstance() called, and run to its end
CallGetInstance ==
  /\ pc = "idle"
  /\ instance' = getInstance(instance)
  /\ op' = [NoOp EXCEPT !.name = "getInstance"]
  /\ given' = ArgumentsOf(op')
  /\ out' = Returned(instance')
  /\ pc' = "done"
  /\ UNCHANGED <<rets, call, it, objs>>

CallTransform ==
  /\ pc = "idle"
  /\ \E coord \in TransformInputs, from \in Systems, to \in Systems :
       op' = [NoOp EXCEPT !.name = "transform", !.coords = <<coord>>,
                          !.from = from, !.to = to]
  /\ pc' = "run"
  /\ given' = ArgumentsOf(op')
  /\ UNCHANGED <<rets, call, it, out, objs, instance>>

CallBatchTransform ==
  /\ pc = "idle"
  /\ \E coords \in Batches, from \in Systems, to \in Systems :
       op' = [NoOp EXCEPT !.name = "batchTransform", !.coords = coords,
                          !.from = from, !.to = to]
  /\ pc' = "run"
  /\ given' = ArgumentsOf(op')
  /\ UNCHANGED <<rets, call, it, out, objs, instance>>

CallGetOffsetCoordinate ==
  /\ pc = "idle"
  /\ \E coord \in OffsetCoords, distance \in Distances, bearing \in Bearings,
        system \in Systems :
       op' = [NoOp EXCEPT !.name = "getOffsetCoordinate", !.coords = <<coord>>,
                          !.from = system, !.distance = distance,
                          !.bearing = bearing]
  /\ pc' = "run"
  /\ given' = ArgumentsOf(op')
  /\ UNCHANGED <<rets, call, it, out, objs, instance>>

CallGetDistance ==
  /\ pc = "idle"
  /\ \E coord1 \in DistanceCoords, coord2 \in DistanceCoords, system \in Systems :
       op' = [NoOp EXCEPT !.name = "getDistance", !.coords = <<coord1, coord2>>,
                          !.from = system]
  /\ pc' = "run"
  /\ given' = ArgumentsOf(op')
  /\ UNCHANGED <<rets, call, it, out, objs, instance>>

CallIsPointInPolygon ==
  /\ pc = "idle"
  /\ \E point \in PolygonPoints, polygon \in Polygons, system \in Systems :
       op' = [NoOp EXCEPT !.name = "isPointInPolygon", !.coords = <<point>>,
                          !.polygon = polygon, !.from = system]
  /\ pc' = "run"
  /\ given' = ArgumentsOf(op')
  /\ UNCHANGED <<rets, call, it, out, objs, instance>>

CallCalculatePolygonArea ==
  /\ pc = "idle"
  /\ \E polygon \in Polygons \cup ShortLists, system \in Systems :
       op' = [NoOp EXCEPT !.name = "calculatePolygonArea", !.polygon = polygon,
                          !.from = system]
  /\ pc' = "run"
  /\ given' = ArgumentsOf(op')
  /\ UNCHANGED <<rets, call, it, out, objs, instance>>

CallCreateBoundingBox ==
  /\ pc = "idle"
  /\ \E coords \in PointLists :
       op' = [NoOp EXCEPT !.name = "createBoundingBox", !.coords = coords]
  /\ pc' = "run"
  /\ given' = ArgumentsOf(op')
  /\ UNCHANGED <<rets, call, it, out, objs, instance>>

\* The end of a call of transform inside op: its value joins rets, its
\* error ends op
Settle(o, obj) ==
  IF o.st = "returned"
  THEN /\ rets' = Append(rets, o.val)
       /\ objs' = Append(objs, obj)
       /\ pc' = "run"
       /\ out' = out
  ELSE /\ rets' = rets
       /\ objs' = objs
       /\ pc' = "done"
       /\ out' = o

\* The object that op passes to its next call of transform: one of the
\* caller's, but for newCoord of getOffsetCoordinate
PassedObject(o, rs) ==
  IF o.name = "getOffsetCoordinate" /\ Len(rs) = 1 THEN "new" ELSE "argument"

\* op calls transform with the arguments s: the call runs to its end, or
\* up to the while loop of gcj02ToWGS84
EnterCall(s) ==
  /\ s.tag = "call"
  /\ IF EntersLoop(s.coord, s.from, s.to)
     THEN /\ call' = [gcj |-> Call("GcjOf", <<Numbers(normalizeCoordinate(s.coord).val), s.from>>),
                      to |-> s.to]
          /\ it' = Call("LoopInit", <<call'.gcj>>)
          /\ pc' = "loop"
          /\ UNCHANGED <<rets, out, objs>>
     ELSE /\ Settle(Call("transform", <<s.coord, s.from, s.to>>),
                    transformObject(s.coord, s.from, s.to, PassedObject(op, rets)))
          /\ UNCHANGED <<call, it>>

Enter ==
  /\ pc = "run"
  /\ EnterCall(Script(op, rets))
  /\ UNCHANGED <<op, given, instance>>

\* One iteration of the while loop
IterStep ==
  /\ pc = "loop"
  /\ LoopCond(it)
  /\ it' = Call("LoopBody", <<call.gcj, it>>)
  /\ UNCHANGED <<op, pc, rets, call, out, given, objs, instance>>

\* The loop ends: gcj02ToWGS84 rounds, fromWGS84 maps to the target
LoopExit ==
  /\ pc = "loop"
  /\ ~LoopCond(it)
  /\ Settle(Call("fromWGS84", <<roundCoordinate(it.wgs84), call.to>>),
            fromWGS84Object(roundCoordinate(it.wgs84), call.to, roundedObject("new")))
  /\ call' = NoCall
  /\ it' = NoIt
  /\ UNCHANGED <<op, given, instance>>

\* op returns or raises without another call of transform
FinishWith(s) ==
  /\ s.tag = "finish"
  /\ out' = s.out

Finish ==
  /\ pc = "run"
  /\ FinishWith(Script(op, rets))
  /\ pc' = "done"
  /\ UNCHANGED <<op, rets, call, it, given, objs, instance>>

\* The caller has the outcome; the transformer is ready for the next call
Return ==
  /\ pc = "done"
  /\ op' = NoOp
  /\ pc' = "idle"
  /\ rets' = <<>>
  /\ out' = NoOut
  /\ given' = ArgumentsOf(NoOp)
  /\ objs' = <<>>
  /\ UNCHANGED <<call, it, instance>>

Next ==
  \/ CallGetInstance
  \/ CallTransform
  \/ CallBatchTransform
  \/ CallGetOffsetCoordinate
  \/ CallGetDistance
  \/ CallIsPointInPolygon
  \/ CallCalculatePolygonArea
  \/ CallCreateBoundingBox
  \/ Enter
  \/ IterStep
  \/ LoopExit
  \/ Finish
  \/ Return

Spec == Init /\ [][Next]_vars

TypeOK ==
  /\ pc \in {"idle", "run", "loop", "done"}
  /\ op.name \in {"none", "getInstance", "transform", "batchTransform", "getOffsetCoordinate",
                 "getDistance", "isPointInPolygon", "calculatePolygonArea",
                 "createBoundingBox"}
  /\ (pc = "idle") = (op.name = "none")
  /\ pc = "loop" => call # NoCall
  /\ pc # "done" => out = NoOut
  /\ pc = "done" => out.st \in {"returned", "raised"}
  /\ instance # NoInstance
  /\ Len(objs) = Len(rets)
  /\ \A i \in 1 .. Len(objs) : objs[i] \in {"argument", "new"}

\* ----------------------------------------------------------------------
\* Properties
\* ----------------------------------------------------------------------

\* A call transform(coord, from, to) from outside has ended
Transformed(from, to) ==
  pc = "done" /\ op.name = "transform" /\ op.from = from /\ op.to = to

\* The argument of the call holds the point p, in one of the three shapes
Carries(p) == op.coords[1] \in ShapesOf(Num(p[1]), Num(p[2]))

\* p lies strictly outside the region envelope
OutsideEnvelope(p) ==
  \/ QLt(p[1], <<72, 4000000>>)
  \/ QGt(p[1], <<137, 834700000>>)
  \/ QLt(p[2], <<0, 829300000>>)
  \/ QGt(p[2], <<55, 827100000>>)

\* The values v are a longitude from -180 to 180 and a latitude from -90
\* to 90, both finite: what validateCoordinate accepts
Accepted(v) ==
  /\ v["longitude"].t = "num" /\ v["latitude"].t = "num"
  /\ QGe(v["longitude"].v, <<-180, 0>>) /\ QLe(v["longitude"].v, <<180, 0>>)
  /\ QGe(v["latitude"].v, <<-90, 0>>) /\ QLe(v["latitude"].v, <<90, 0>>)

\* The argument c is a Coordinate object that holds a valid coordinate
InRange(c) == c.shape = "object" /\ Accepted(c.val)

\* One of the three systems
KnownSystem(system) == system \in {"WGS84", "GCJ02", "BD09"}

\* C1: transform(p, WGS84, GCJ02) of a valid coordinate p that lies
\* strictly outside the region envelope returns a coordinate equal to p.
C1_OutsideUnchangedGCJ02 ==
  \A p \in ValidPoints :
    (Transformed("WGS84", "GCJ02") /\ Carries(p) /\ OutsideEnvelope(p))
      => out = Returned(Coordinate(p[1], p[2]))

\* A point just west of the envelope has been converted to GCJ02
C1_Witness ==
  Transformed("WGS84", "GCJ02") /\ Carries(JustOutside) /\ out.st = "returned"

\* C2: transform(p, WGS84, BD09) of a valid coordinate p that lies
\* strictly outside the region envelope returns a coordinate equal to p.
C2_OutsideUnchangedBD09 ==
  \A p \in ValidPoints :
    (Transformed("WGS84", "BD09") /\ Carries(p) /\ OutsideEnvelope(p))
      => out = Returned(Coordinate(p[1], p[2]))

\* C3: the loop of transform(p, GCJ02, WGS84) is left after finitely many
\* iterations for every valid coordinate p, the edges of the region
\* envelope included: it never comes back to a state it was in before,
\* from which it would repeat for ever.
C3_InverseTerminates ==
  (pc = "loop" /\ op.name = "transform" /\ op.from = "GCJ02" /\ op.to = "WGS84")
    => RunLoop(call.gcj, it, {}, MaxIter).tag # "cycle"

\* Two numbers differ by 1e-6 at most
Within(a, b) == QLe(QAbs(QSub(a, b)), <<0, 1000>>)

\* transform(gcj02, GCJ02, WGS84) returns p within 1e-6 degrees
ComesBackTo(gcj02, p) ==
  LET back == Call("transform", <<CoordOf(Num(gcj02.longitude), Num(gcj02.latitude)),
                                  "GCJ02", "WGS84">>)
  IN /\ back.st = "returned"
     /\ Within(back.val.longitude, p[1])
     /\ Within(back.val.latitude, p[2])

\* C4: for every WGS84 coordinate p inside the region envelope, its edges
\* included, transform(transform(p, WGS84, GCJ02), GCJ02, WGS84) equals p
\* within 1e-6 degrees in longitude and in latitude.
C4_RoundTrip ==
  \A p \in ValidPoints :
    (Transformed("WGS84", "GCJ02") /\ Carries(p) /\ ~OutsideEnvelope(p))
      => (out.st = "returned" /\ ComesBackTo(out.val, p))

\* C5: transform of a valid coordinate fails with an error whenever from
\* or to is none of WGS84, GCJ02 and BD09, also when from equals to.
C5_UnknownSystemFails ==
  \A p \in ValidPoints :
    (/\ pc = "done" /\ op.name = "transform" /\ Carries(p)
     /\ (\/ op.from \notin {"WGS84", "GCJ02", "BD09"}
         \/ op.to \notin {"WGS84", "GCJ02", "BD09"}))
      => out.st = "raised"

\* NaN or infinite, or a number beyond the limit
Rejected(x, limit) ==
  x.t \in {"NaN", "Infinity", "-Infinity"} \/ (x.t = "num" /\ QGt(QAbs(x.v), QInt(limit)))

\* The pairs of values that the arguments of transform hold
PairsGiven == InvalidPairs \cup {<<Num(p[1]), Num(p[2])>> : p \in ValidPoints}

\* C6: transform raises the validation error and returns no value whenever
\* the longitude or the latitude it is given is NaN, infinite or beyond
\* 180 and 90 in absolute value, for every from and to, equal ones
\* included; longitude +-180 with latitude +-90 is accepted.
C6_ValidationRaises ==
  /\ \A v \in PairsGiven :
       (/\ pc = "done" /\ op.name = "transform"
        /\ op.coords[1] \in ShapesOf(v[1], v[2])
        /\ (Rejected(v[1], 180) \/ Rejected(v[2], 90)))
         => (out.st = "raised" /\ out.err = "CoordinateError")
  /\ \A p \in {RangeMax, RangeMin} :
       (/\ pc = "done" /\ op.name = "transform" /\ Carries(p)
        /\ op.from \in {"WGS84", "GCJ02", "BD09"}
        /\ op.to \in {"WGS84", "GCJ02", "BD09"})
         => out.st = "returned"

\* A longitude of 181 has been refused in a call with from equal to to
C6_Witness ==
  /\ pc = "done" /\ op.name = "transform" /\ op.from = op.to
  /\ op.coords[1] = PointOf(Num(<<181, 0>>), Num(QZero))
  /\ out.err = "CoordinateError"

\* C7: transform(p, X, X) of a valid coordinate p, for each of the three
\* systems X, returns exactly the longitude and latitude of p, neither
\* rounded nor moved, whichever of the three shapes holds p.
C7_SameSystemUnchanged ==
  \A p \in ValidPoints :
    (/\ pc = "done" /\ op.name = "transform" /\ Carries(p)
     /\ op.from = op.to /\ op.from \in {"WGS84", "GCJ02", "BD09"})
      => out = Returned(Coordinate(p[1], p[2]))

\* A point with nine decimals, held as {lat, lng}, came back from GCJ02
\* to GCJ02
C7_Witness ==
  /\ Transformed("GCJ02", "GCJ02")
  /\ op.coords[1] = LatLngOf(Num(OffGrid[1]), Num(OffGrid[2]))
  /\ out.st = "returned"

\* C8: every failure of transform on null, undefined, an empty object or
\* an object that lacks one of its two fields is raised as a
\* CoordinateError, and no value is returned.
C8_MalformedRaisesCoordinateError ==
  (/\ pc = "done" /\ op.name = "transform"
   /\ op.coords[1] \in Malformed /\ op.coords[1].shape # "array")
    => (out.st = "raised" /\ out.err = "CoordinateError")

\* The argument holds a valid coordinate
ValidElement(c) == \E p \in ValidPoints : c \in ShapesOf(Num(p[1]), Num(p[2]))

\* The outcome r of batchTransform(coords, from, to) is the array of the
\* transform of each element, or an error if an element is not valid
MapOf(coords, from, to, r) ==
  IF \A i \in 1 .. Len(coords) : ValidElement(coords[i])
  THEN /\ r.st = "returned"
       /\ Len(r.val) = Len(coords)
       /\ \A i \in 1 .. Len(coords) :
            Returned(r.val[i]) = Call("transform", <<coords[i], from, to>>)
  ELSE r.st = "raised"

\* C9: batchTransform(coords, from, to) is the map of transform over
\* coords: with valid elements only it returns an array of the length of
\* coords whose i-th element is transform(coords[i], from, to), an empty
\* one for empty coords; with an invalid element the whole call raises.
C9_BatchIsMap ==
  (/\ pc = "run" /\ op.name = "batchTransform" /\ rets = <<>>
   /\ op.from \in {"WGS84", "GCJ02", "BD09"} /\ op.to \in {"WGS84", "GCJ02", "BD09"})
    => MapOf(op.coords, op.from, op.to, Outcome(op, <<>>))

\* The outcome r of getOffsetCoordinate for a distance and a bearing: an
\* error for the values it refuses and for no others, a coordinate for
\* the distance 0 and for the bearings 0 and 360
OffsetChecked(distance, bearing, r) ==
  IF \/ distance.t # "num" \/ QLt(distance.v, QZero)
     \/ bearing.t # "num" \/ QLt(bearing.v, QZero) \/ QGt(bearing.v, <<360, 0>>)
  THEN r.st = "raised" /\ r.err = "CoordinateError"
  ELSE /\ r.st # "raised"
       /\ (distance.v = QZero \/ bearing.v \in {QZero, <<360, 0>>}) => r.st = "returned"

\* C10: getOffsetCoordinate of a valid coordinate and system raises a
\* CoordinateError exactly when the distance is NaN, infinite or negative
\* or the bearing is NaN, infinite, below 0 or above 360; the distance 0
\* and the bearings 0 and 360 are accepted and a coordinate is returned.
C10_OffsetArguments ==
  (/\ pc = "run" /\ op.name = "getOffsetCoordinate" /\ rets = <<>>
   /\ InRange(op.coords[1]) /\ KnownSystem(op.from))
    => OffsetChecked(op.distance, op.bearing, Outcome(op, <<>>))

\* getOffsetCoordinate(p, 0, bearing, WGS84) has ended, for some bearing
\* from 0 to 360
OffsetByZero ==
  /\ pc = "done" /\ op.name = "getOffsetCoordinate" /\ op.from = "WGS84"
  /\ InRange(op.coords[1])
  /\ op.distance = Num(QZero)
  /\ op.bearing.t = "num" /\ QGe(op.bearing.v, QZero) /\ QLe(op.bearing.v, <<360, 0>>)

\* C11: getOffsetCoordinate(p, 0, bearing, WGS84), for a valid WGS84
\* point p and a bearing from 0 to 360, returns p within 1e-6 degrees in
\* longitude and in latitude, also for a longitude of exactly 180 or -180
\* and at the poles.
C11_ZeroDistanceStays ==
  OffsetByZero =>
    /\ out.st = "returned"
    /\ Within(out.val.longitude, op.coords[1].val["longitude"].v)
    /\ Within(out.val.latitude, op.coords[1].val["latitude"].v)

\* createBoundingBox(coords) has ended, and every element of coords is a
\* Coordinate object
Boxed == pc = "done" /\ op.name = "createBoundingBox" /\ Null \notin Range(op.coords)

\* Every element holds two finite numbers
NumericPoints(coords) ==
  \A c \in Range(coords) : c.val["longitude"].t = "num" /\ c.val["latitude"].t = "num"

\* The values that the elements hold under the key k
ValuesOf(coords, k) == {c.val[k] : c \in Range(coords)}

\* x is the least, the greatest of the numbers vs
IsLeast(x, vs) == x \in vs /\ \A y \in vs : QLe(x.v, y.v)
IsGreatest(x, vs) == x \in vs /\ \A y \in vs : QGe(x.v, y.v)

\* C12: createBoundingBox of a non-empty list of points returns the least
\* and the greatest latitude and the least and the greatest longitude of
\* the points, whatever their order; of a single point it returns that
\* point's latitude and longitude, each twice.
C12_BoxIsMinMax ==
  (Boxed /\ Len(op.coords) > 0 /\ NumericPoints(op.coords)) =>
    /\ out.st = "returned"
    /\ IsLeast(out.val.minLat, ValuesOf(op.coords, "latitude"))
    /\ IsGreatest(out.val.maxLat, ValuesOf(op.coords, "latitude"))
    /\ IsLeast(out.val.minLng, ValuesOf(op.coords, "longitude"))
    /\ IsGreatest(out.val.maxLng, ValuesOf(op.coords, "longitude"))
    /\ Len(op.coords) = 1 =>
         out.val = BoundingBox(op.coords[1].val["latitude"], op.coords[1].val["latitude"],
                               op.coords[1].val["longitude"], op.coords[1].val["longitude"])

\* The box of three points has been made; the first of them has neither
\* the least nor the greatest longitude
C12_Witness ==
  /\ Boxed /\ out.st = "returned"
  /\ op.coords = <<CoordOf(Num(Beijing[1]), Num(Beijing[2])),
                   CoordOf(Num(<<179, 0>>), Num(QZero)),
                   CoordOf(Num(<<-179, 0>>), Num(QOne))>>

\* The points lie on both sides of the meridian of 180 degrees: one has
\* the longitude 179 and one the longitude -179
Straddles(coords) ==
  /\ NumericPoints(coords)
  /\ Num(<<179, 0>>) \in ValuesOf(coords, "longitude")
  /\ Num(<<-179, 0>>) \in ValuesOf(coords, "longitude")

\* C13 as the specification states it: the box of points on both sides of
\* the meridian of 180 degrees (longitudes 179 and -179) has a minLng
\* greater than its maxLng.
C13_StraddlingBoxInverted ==
  (Boxed /\ Straddles(op.coords)) =>
    (out.st = "returned" /\ QGt(out.val.minLng.v, out.val.maxLng.v))

\* C13, amended: the box of points on both sides of the meridian of 180
\* degrees (longitudes 179 and -179) is not unwrapped: its minLng is -179
\* or less and its maxLng is 179 or more, so minLng is less than maxLng
\* and the box spans the long way round.
C13_StraddlingBoxSpans ==
  (Boxed /\ Straddles(op.coords)) =>
    /\ out.st = "returned"
    /\ QLe(out.val.minLng.v, <<-179, 0>>)
    /\ QGe(out.val.maxLng.v, <<179, 0>>)
    /\ QLt(out.val.minLng.v, out.val.maxLng.v)

\* The box of the points (179, 0) and (-179, 1) has been made
C13_Witness ==
  /\ Boxed /\ out.st = "returned"
  /\ op.coords = <<CoordOf(Num(<<179, 0>>), Num(QZero)),
                   CoordOf(Num(<<-179, 0>>), Num(QOne))>>

\* C14: createBoundingBox raises a CoordinateError for the empty list and
\* for no other: for every non-empty list of coordinates, those with NaN
\* or with numbers out of range included, it returns a box.
C14_RaisesOnlyOnEmpty ==
  Boxed =>
    IF Len(op.coords) = 0
    THEN out.st = "raised" /\ out.err = "CoordinateError"
    ELSE out.st = "returned"

\* A box has been returned for a list that holds NaN and numbers out of
\* range
C14_Witness ==
  /\ Boxed /\ out.st = "returned"
  /\ op.coords = <<CoordOf(NaN, Num(<<39, 915000000>>)),
                   CoordOf(Num(<<181, 0>>), Num(<<-91, 0>>))>>

\* C15: calculatePolygonArea returns exactly 0 and raises no error for
\* every list of 0, 1 or 2 vertices and every system, whatever the
\* vertices are: none of them is validated or transformed.
C15_ShortListHasNoArea ==
  (pc = "done" /\ op.name = "calculatePolygonArea" /\ Len(op.polygon) < 3) =>
    (out = Returned(Num(QZero)) /\ rets = <<>>)

\* The area of a list of two elements, null and a coordinate with NaN,
\* has been asked for in GCJ02
C15_Witness ==
  /\ pc = "done" /\ op.name = "calculatePolygonArea" /\ op.from = "GCJ02"
  /\ op.polygon = <<Null, CoordOf(NaN, Num(<<39, 915000000>>))>>
  /\ out.st = "returned"

\* C16: getDistance(p, p, S) is exactly 0 for every valid coordinate p and
\* each of the three systems S.
C16_DistanceToSelfIsZero ==
  (/\ pc = "run" /\ op.name = "getDistance" /\ rets = <<>>
   /\ InRange(op.coords[1]) /\ KnownSystem(op.from)
   /\ op.coords[1] = op.coords[2])
    => Outcome(op, <<>>) = Returned(Num(QZero))

\* The place of a point of the grid of At, in steps east and north
StepsEast(c) == (c.val["longitude"].v[2] \div 50000000) - 2
StepsNorth(c) == (c.val["latitude"].v[2] \div 50000000) - 2

\* (b - a) x (p - a): positive when p lies to the left of the way from a
\* to b
Cross(a, b, p) ==
  (StepsEast(b) - StepsEast(a)) * (StepsNorth(p) - StepsNorth(a))
    - (StepsNorth(b) - StepsNorth(a)) * (StepsEast(p) - StepsEast(a))

\* The ends of the polygon's edges, the edge from the last vertex to the
\* first included
EdgesOf(polygon) ==
  {<<polygon[i], polygon[(i % Len(polygon)) + 1]>> : i \in 1 .. Len(polygon)}

\* p lies on the edge e
OnEdge(e, p) ==
  /\ Cross(e[1], e[2], p) = 0
  /\ (StepsEast(p) - StepsEast(e[1])) * (StepsEast(p) - StepsEast(e[2])) <= 0
  /\ (StepsNorth(p) - StepsNorth(e[1])) * (StepsNorth(p) - StepsNorth(e[2])) <= 0

\* The ray from p toward increasing longitude crosses the edge e: the
\* ends of e lie on the two sides of the ray's line (an end level with p
\* counts as below it) and the edge meets that line east of p
RayCrosses(e, p) ==
  \/ /\ StepsNorth(e[1]) <= StepsNorth(p) /\ StepsNorth(p) < StepsNorth(e[2])
     /\ Cross(e[1], e[2], p) > 0
  \/ /\ StepsNorth(e[2]) <= StepsNorth(p) /\ StepsNorth(p) < StepsNorth(e[1])
     /\ Cross(e[1], e[2], p) < 0

\* C17: isPointInPolygon follows the even-odd rule over all pairs of
\* consecutive vertices, the edge from the last vertex to the first
\* included: for a simple polygon and a point not on its boundary it
\* returns true exactly when the ray from the point toward increasing
\* longitude crosses an odd number of edges, and for the empty polygon it
\* returns false.
C17_EvenOddRule ==
  (/\ pc = "done" /\ op.name = "isPointInPolygon" /\ KnownSystem(op.from)
   /\ InRange(op.coords[1]) /\ \A v \in Range(op.polygon) : InRange(v)
   /\ \A e \in EdgesOf(op.polygon) : ~OnEdge(e, op.coords[1]))
    => /\ out.st = "returned"
       /\ out.val = (Cardinality({e \in EdgesOf(op.polygon) : RayCrosses(e, op.coords[1])}) % 2 = 1)
       /\ op.polygon = << >> => out.val = FALSE

\* A point inside the L, level with its reflex vertex, has been found
\* inside it, the vertices being given in GCJ02
C17_Witness ==
  /\ pc = "done" /\ op.name = "isPointInPolygon" /\ op.from = "GCJ02"
  /\ op.coords[1] = At(1, 2) /\ Len(op.polygon) = 6
  /\ out = Returned(TRUE)

Rounded8(a) == a[2] % 10 = 0

\* C19: every coordinate that transform(p, from, to) returns for from
\* other than to and a valid p, inside or outside the region envelope, is
\* rounded to 8 decimals: its longitude and its latitude are multiples of
\* 1e-8.
C19_ResultsAreRounded ==
  \A p \in ValidPoints :
    (/\ pc = "done" /\ op.name = "transform" /\ Carries(p)
     /\ op.from # op.to
     /\ op.from \in {"WGS84", "GCJ02", "BD09"} /\ op.to \in {"WGS84", "GCJ02", "BD09"}
     /\ out.st = "returned")
      => (Rounded8(out.val.longitude) /\ Rounded8(out.val.latitude))

\* C20: the region envelope is closed. A point is out of the region
\* exactly when its longitude is below 72.004 or above 137.8347 or its
\* latitude is below 0.8293 or above 55.8271; a point with a component
\* equal to a bound is in the region, and transform(p, WGS84, GCJ02)
\* moves each of the four corners of the envelope.
C20_EnvelopeIsClosed ==
  \A p \in ValidPoints :
    (Transformed("WGS84", "GCJ02") /\ Carries(p)) =>
      /\ isOutOfChina(Coordinate(p[1], p[2])) = OutsideEnvelope(p)
      /\ OutsideEnvelope(p) => out = Returned(Coordinate(p[1], p[2]))
      /\ p \in {CornerSW, CornerNE, CornerNW, CornerSE} =>
           (out.st = "returned" /\ out.val # Coordinate(p[1], p[2]))

\* The north-east corner of the envelope has been converted to GCJ02, and
\* moved
C20_Witness ==
  /\ Transformed("WGS84", "GCJ02") /\ Carries(CornerNE)
  /\ out.st = "returned" /\ out.val # Coordinate(CornerNE[1], CornerNE[2])

\* The way through WGS84, stage by stage: to WGS84 from the source system,
\* then from WGS84 to the target system
HubTarget(w, to) ==
  IF w.st # "returned" THEN w
  ELSE IF to = "WGS84" THEN Returned(cloneCoordinate(w.val))
  ELSE IF to = "GCJ02" THEN Returned(wgs84ToGCJ02(w.val))
  ELSE Returned(gcj02ToBD09(wgs84ToGCJ02(w.val)))
ViaHub(c, from, to) ==
  IF from = "WGS84" THEN HubTarget(Returned(cloneCoordinate(c)), to)
  ELSE IF from = "GCJ02" THEN HubTarget(gcj02ToWGS84(c), to)
  ELSE HubTarget(gcj02ToWGS84(bd09ToGCJ02(c)), to)

\* C21: for every valid coordinate and every two different known systems
\* transform(coord, from, to) is fromWGS84(toWGS84(coord, from), to): from
\* GCJ02 to BD09 it is gcj02ToBD09(wgs84ToGCJ02(gcj02ToWGS84(p))), from
\* BD09 to GCJ02 it is wgs84ToGCJ02(gcj02ToWGS84(bd09ToGCJ02(p))), never
\* the polar mapping alone.
C21_ThroughTheHub ==
  \A p \in ValidPoints :
    (/\ pc = "done" /\ op.name = "transform" /\ Carries(p)
     /\ op.from # op.to
     /\ op.from \in {"WGS84", "GCJ02", "BD09"} /\ op.to \in {"WGS84", "GCJ02", "BD09"})
      => out = ViaHub(Coordinate(p[1], p[2]), op.from, op.to)

\* Beijing has been converted from GCJ02 to BD09
C21_Witness ==
  Transformed("GCJ02", "BD09") /\ Carries(Beijing) /\ out.st = "returned"

\* C22: every coordinate that transform returns for a valid input and
\* known systems is a valid Coordinate itself, with a longitude from -180
\* to 180 and a latitude from -90 to 90, so that another call of
\* transform accepts it.
C22_ResultsAreValid ==
  \A p \in ValidPoints :
    (/\ pc = "done" /\ op.name = "transform" /\ Carries(p)
     /\ op.from \in {"WGS84", "GCJ02", "BD09"} /\ op.to \in {"WGS84", "GCJ02", "BD09"}
     /\ out.st = "returned")
      => /\ QLe(QAbs(out.val.longitude), <<180, 0>>)
         /\ QLe(QAbs(out.val.latitude), <<90, 0>>)

\* getOffsetCoordinate has its WGS84 point and is about to hand newCoord
\* to the final call of transform
AtNewCoord == pc = "run" /\ op.name = "getOffsetCoordinate" /\ Len(rets) = 1

\* C23: the longitude of the destination that getOffsetCoordinate
\* computes is normalized by (lon + 540) mod 360 - 180: for every valid
\* start point, distance and bearing it lies from -180 to 180, and the
\* destination always passes the validation of the final call of
\* transform.
C23_DestinationIsAccepted ==
  AtNewCoord => Accepted(Script(op, rets).coord.val)

\* A call of getDistance, of isPointInPolygon, of calculatePolygonArea
\* with 3 vertices or more, or of getOffsetCoordinate with a distance and
\* a bearing that it accepts, is at its start
GeometryCall ==
  /\ pc = "run" /\ rets = <<>>
  /\ \/ op.name \in {"getDistance", "isPointInPolygon"}
     \/ op.name = "calculatePolygonArea" /\ Len(op.polygon) >= 3
     \/ /\ op.name = "getOffsetCoordinate"
        /\ op.distance.t = "num" /\ QGe(op.distance.v, QZero)
        /\ op.bearing.t = "num" /\ QGe(op.bearing.v, QZero) /\ QLe(op.bearing.v, <<360, 0>>)

\* The outcome r of a geometry operation on the coordinates cs in the
\* system given: the validation error if one of cs is not finite or out
\* of range, the error of the unsupported system if the system is none of
\* the three, one of the two errors if both are the case
GeometryChecked(cs, system, r) ==
  LET refused == IF \E c \in cs : ~InRange(c) THEN {"not finite", "out of range"} ELSE {}
      unsupported == IF KnownSystem(system) THEN {} ELSE {"unsupported source system"}
  IN (refused \cup unsupported # {}) =>
       (r.st = "raised" /\ r.err = "CoordinateError" /\ r.msg \in refused \cup unsupported)

\* C24: getDistance, isPointInPolygon, calculatePolygonArea (of 3 vertices
\* or more) and getOffsetCoordinate pass each point and each vertex they
\* are given through transform to WGS84: each of them raises the
\* validation error and returns no value when one of these coordinates is
\* not finite or out of range, and raises the error of the unsupported
\* system when the system is none of the three.
C24_GeometryValidates ==
  GeometryCall =>
    GeometryChecked(Range(op.coords) \cup Range(op.polygon), op.from, Outcome(op, <<>>))

\* What a call has returned or raised is what the call run to its end gives
\* The objects of the Coordinates that op hands to its caller
ReturnedObjects ==
  IF op.name = "transform" THEN {objs[1]}
  ELSE IF op.name = "batchTransform" THEN Range(objs)
  ELSE IF op.name = "getOffsetCoordinate" THEN {objs[2]}
  ELSE {}

ClosedRing(polygon) == Append(polygon, polygon[1])

\* C27: for a list of 3 or more valid vertices, a valid point and one of
\* the three systems, what isPointInPolygon and calculatePolygonArea
\* return is what they return for the list with its ring closed by a copy
\* of the first vertex
C27_ClosingTheRing ==
  (/\ pc = "done"
   /\ op.name \in {"isPointInPolygon", "calculatePolygonArea"}
   /\ Len(op.polygon) >= 3
   /\ KnownSystem(op.from)
   /\ \A v \in Range(op.polygon) : InRange(v)
   /\ op.name = "isPointInPolygon" => InRange(op.coords[1]))
  => out = Outcome([op EXCEPT !.polygon = ClosedRing(op.polygon)], <<>>)

\* isPointInPolygon returned true for a point inside the triangle, given
\* with its ring closed
C27_Witness ==
  /\ pc = "done"
  /\ op.name = "isPointInPolygon"
  /\ op.from = "GCJ02"
  /\ op.coords = <<At(1, 1)>>
  /\ op.polygon = ClosedRing(<<At(0, 0), At(0, 4), At(4, 0)>>)
  /\ out = Returned(TRUE)

OutcomeAtEnd == pc = "done" /\ op.name # "getInstance" => out = Outcome(op, <<>>)

====
